---------------------------- MODULE Spec2Model ----------------------------
(***************************************************************************)
(* A model of teledoom.py: the telephony handlers of class Asterisk        *)
(* (on_start, on_dtmf, on_end), which own the active slot `playing` and    *)
(* the list `waiting` and push events on an asyncio.Queue, and the         *)
(* scheduler coroutine Doom.start, which consumes that queue and drives    *)
(* the game and the stream.                                                *)
(*                                                                         *)
(* Everything runs on one asyncio event loop.  A coroutine runs without    *)
(* interruption from one `await` that suspends to the next, so an action   *)
(* of this model is the code between two suspensions.  `await queue.put`   *)
(* on the unbounded queue does not suspend; the calls on a channel (HTTP   *)
(* requests to Asterisk), asyncio.sleep and the waits on the queue do.     *)
(* Nothing in teledoom.py serialises the handlers, so on_dtmf and on_end    *)
(* of any channel may run while an on_start or an on_end is suspended.     *)
(* A call on a channel is taken to return, also on a channel that has hung *)
(* up.                                                                     *)
(*                                                                         *)
(* Two parts of the program are also followed on their own: a              *)
(* ButtonManager called in every order (variable manager), and the times   *)
(* of the frame loop of Doom.start (variable clock), where time passes     *)
(* while the scheduler works and while it waits.                           *)
(***************************************************************************)
EXTENDS Integers, Sequences, FiniteSets, TLC

(***************************************************************************)
(* Bounds of the model.                                                    *)
(***************************************************************************)
\* Channels 1..MaxChannels may call in.
MaxChannels == 3
\* The channels that call in when the scheduler is part of the behaviour.
DoomChannels == 2
\* The number of ChannelDtmfReceived events delivered in one behaviour.
MaxDtmf == 1
\* DOOM_FPS is read from the environment (default 35); the model runs the
\* program configured with a small frame rate.
DOOM_FPS == 4
\* The largest timeout handed to ButtonManager.button_pressed on its own.
MaxHold == 3
\* Time is counted in units of 1 / (Period * DOOM_FPS) second: a frame
\* period, 1 / DOOM_FPS, is Period units.
Period == 2
\* The longest a synchronous stretch of Doom.start (a frame's work, a
\* dispatch) takes, in units of time.
MaxWork == 3
\* The frames of one streaming run whose times are followed.
MaxFrames == 3
\* The scheduler opens the stream at a time 0..MaxRest.
MaxRest == 2

Channels == 1..MaxChannels

(***************************************************************************)
(* Values.  A Python string is a sequence of small integers, None and ''   *)
(* (both falsy in the one place they are tested, Overlay.set_caller) are   *)
(* the empty sequence.  A session is the tuple <<caller, channel id>>.     *)
(***************************************************************************)
None == <<>>

\* channel.json['caller']['number'] of the channel with id c: two numbers
\* that differ in their middle digits only, then a number that does not parse.
CallerOf(c) ==
  CASE c = 1 -> <<4, 4, 1, 6, 1, 1, 1, 7, 2, 5>>
    [] c = 2 -> <<4, 4, 1, 6, 2, 2, 2, 7, 2, 5>>
    [] OTHER -> <<c>>

Session(c) == <<CallerOf(c), c>>

\* Event: the enum members; an event on the queue is the tuple (type, value).
GOT_CONNECTION == "GOT_CONNECTION"
NEW_PLAYER == "NEW_PLAYER"
NO_PLAYER == "NO_PLAYER"
BUTTON_PRESSED == "BUTTON_PRESSED"

Ev(type, value) == [type |-> type, value |-> value]

\* event['digit'] of a ChannelDtmfReceived event is one of 0-9, * (10), # (11)
\* and A-D (12..15); the model delivers '5' (ATTACK), '1' (MOVE_LEFT) and 'A',
\* which BUTTON_MAP does not hold.
DtmfInputs == {5, 1, 12}

(***************************************************************************)
(* Asterisk: the registry operations, as functions of the state they read. *)
(***************************************************************************)
\* A fault: the caller is put at the head of the list.
waiting_prepend(w, s) == <<s>> \o w

\* self.waiting.append((caller, channel.id))
waiting_append(w, s) == Append(w, s)

\* A fault: the caller is put in the list also when nobody is active.
admit_queues(p, w, s) ==
  [playing |-> p, waiting |-> waiting_append(w, s), outcome |-> "queued"]

\* The admission step at the end of on_start.
admit(p, w, s) ==
  IF p = None
    THEN [playing |-> s, waiting |-> w, outcome |-> "active"]
    ELSE [playing |-> p, waiting |-> waiting_append(w, s), outcome |-> "queued"]

\* [x for x in self.waiting if channel.id != x[1]]
waiting_without(w, id) == SelectSeq(w, LAMBDA x : id # x[2])

\* self.playing = self.waiting[0]; self.waiting = self.waiting[1:]
promote(w) == [playing |-> Head(w), waiting |-> Tail(w)]

\* The synchronous first part of on_end, up to its first suspension.
\* self.playing[1] raises TypeError when self.playing is None.
depart(p, w, id) ==
  IF p = None
    THEN [playing |-> p, waiting |-> w, kind |-> "raised"]
    ELSE IF id = p[2]
      THEN IF Len(w) > 0
        THEN [playing |-> promote(w).playing, waiting |-> promote(w).waiting,
              kind |-> "promote"]
        ELSE [playing |-> None, waiting |-> w, kind |-> "idle"]
      ELSE [playing |-> p, waiting |-> waiting_without(w, id), kind |-> "other"]

\* (Event.NEW_PLAYER, self.playing[0]), evaluated when the handler resumes
\* after channel.play: <<>> when self.playing is None by then (TypeError).
new_player_event(p) == IF p = None THEN <<>> ELSE <<Ev(NEW_PLAYER, p[1])>>

(***************************************************************************)
(* Overlay.                                                                *)
(***************************************************************************)
\* The 'X' that replaces an obfuscated digit.
X == 0 - 1

Max(a, b) == IF a > b THEN a ELSE b

\* phonenumbers.parse(phone_number, None) raises NumberParseException on a
\* string that is too short to be a number.
parses(phone_number) == Len(phone_number) > 2

\* Overlay.format_phone_number, on the digits of the formatted number (the
\* separators that phonenumbers.format_number inserts are left out).
format_phone_number(phone_number) ==
  IF ~parses(phone_number)
    THEN [text |-> "Unknown caller", digits |-> <<>>]
    ELSE
      LET num_digits == Len(phone_number)
          num_tail_digits == (num_digits - 4) \div 2
          tail_len == Max(num_tail_digits, 0)
          num_head_digits == num_digits - 4 - num_tail_digits
          head_len == Max(num_head_digits, 0)
          \* phone_number[len(head_digits):-len(tail_digits)] is '' when
          \* tail_digits is ''
          middle_end == IF tail_len = 0 THEN 0 ELSE num_digits - tail_len
      IN [text |-> "number",
          digits |-> [i \in 1..(head_len + Max(middle_end - head_len, 0) + tail_len) |->
                        IF i <= head_len THEN phone_number[i]
                        ELSE IF i <= head_len + Max(middle_end - head_len, 0) THEN X
                        ELSE phone_number[num_digits - tail_len
                                          + (i - head_len - Max(middle_end - head_len, 0))]]]

\* Overlay.set_caller: the new value of Overlay.caller.
set_caller(phone_number) ==
  IF phone_number = None
    THEN [text |-> "No caller", digits |-> <<>>]
    ELSE format_phone_number(phone_number)

(***************************************************************************)
(* ButtonManager.                                                          *)
(***************************************************************************)
\* BUTTON_MAP: the keys '1'..'9', '*' (10), '0', '#' (11) and their buttons.
BUTTON_MAP ==
  [k \in 0..11 |->
     CASE k = 1 -> "MOVE_LEFT"   [] k = 2 -> "MOVE_FORWARD"  [] k = 3 -> "MOVE_RIGHT"
       [] k = 4 -> "TURN_LEFT"   [] k = 5 -> "ATTACK"        [] k = 6 -> "TURN_RIGHT"
       [] k = 7 -> "CROUCH"      [] k = 8 -> "MOVE_BACKWARD" [] k = 9 -> "JUMP"
       [] k = 10 -> "SELECT_PREV_WEAPON" [] k = 0 -> "USE"
       [] OTHER -> "SELECT_NEXT_WEAPON"]

\* BUTTON_LIST = list(BUTTON_MAP.values()), in the order of the dict literal.
BUTTON_LIST ==
  <<"MOVE_LEFT", "MOVE_FORWARD", "MOVE_RIGHT", "TURN_LEFT", "ATTACK", "TURN_RIGHT",
    "CROUCH", "MOVE_BACKWARD", "JUMP", "SELECT_PREV_WEAPON", "USE", "SELECT_NEXT_WEAPON">>

\* BUTTON_LIST.index(button), counted from 1.
index(button) == CHOOSE i \in 1..Len(BUTTON_LIST) : BUTTON_LIST[i] = button

\* ButtonManager(): the button_timeout of a new manager.
ButtonManager == [i \in 1..Len(BUTTON_LIST) |-> 0]

\* A fault: a press adds its timeout to what is left of the press before.
button_pressed_accumulate(button_timeout, button, timeout) ==
  IF button \in DOMAIN BUTTON_MAP
    THEN [button_timeout EXCEPT ![index(BUTTON_MAP[button])] = @ + timeout]
    ELSE button_timeout

\* A fault: a key that BUTTON_MAP does not hold presses the first button.
button_pressed_unmapped_first(button_timeout, button, timeout) ==
  IF button \in DOMAIN BUTTON_MAP
    THEN [button_timeout EXCEPT ![index(BUTTON_MAP[button])] = timeout]
    ELSE [button_timeout EXCEPT ![1] = timeout]

\* ButtonManager.button_pressed: the new button_timeout.
button_pressed(button_timeout, button, timeout) ==
  IF button \in DOMAIN BUTTON_MAP
    THEN [button_timeout EXCEPT ![index(BUTTON_MAP[button])] = timeout]
    ELSE button_timeout

\* A fault: the decay has no floor.
decay_unfloored(x) == x - 1

\* The decay in ButtonManager.get_action: max(x - 1, 0).
decay(x) == Max(x - 1, 0)

\* ButtonManager.get_action: the new button_timeout and the returned vector.
get_action(button_timeout) ==
  LET t == [i \in DOMAIN button_timeout |-> decay(button_timeout[i])]
  IN [button_timeout |-> t, action |-> [i \in DOMAIN t |-> t[i] > 0]]

\* The hold of a key press in Doom.start: DOOM_FPS // 2.
HoldTicks == DOOM_FPS \div 2
\* A fault: the idle grace is a second short.
IdleFramesShort == DOOM_FPS * 14
\* The idle grace in Doom.start: DOOM_FPS * 15.
IdleFrames == DOOM_FPS * 15

(***************************************************************************)
(* Doom.start: the code between two suspensions, as functions of the       *)
(* scheduler's state d.  f names the call of the game or of the stream     *)
(* that raises in this step ("none": no call raises), fin is the answer of *)
(* game.is_episode_finished().                                             *)
(***************************************************************************)
Faults == {"none", "init", "advance_action", "open", "new_episode", "get_state",
           "send_frame", "make_action"}

\* The state of the scheduler when Doom(loop, twitch, queue) is constructed
\* and start() has not run yet.  The fields after `loop_running` are history.
InitDoom ==
  [ pc |-> "init",             \* where start() is suspended
    wait |-> "none",           \* the timeout of the wait it is suspended in
    idle |-> TRUE,
    idle_frames_left |-> 0,
    caller |-> set_caller(None),   \* Overlay.caller
    button_timeout |-> ButtonManager,
    stream |-> FALSE,          \* the ffmpeg process of Twitch is open
    game |-> "created",        \* "created", "running" (init done), "closed"
    loop_running |-> TRUE,     \* loop.stop() has not been called
    error |-> "none",          \* the call that raised
    discarded |-> {},          \* types of the events dequeued and never dispatched
    last |-> "none",           \* the last event dispatched, "restart", or "tick"
    tick |-> "none",           \* the last tick: "frame" (published) or "no_frame"
    fresh |-> {},              \* the buttons pressed since the last session change
    cleared |-> {},            \* the buttons that were held at the last session change
    press |-> [b |-> 0, n |-> 0, on |-> 0],   \* last press: samples since, samples on
    grace |-> [by |-> "none", frames |-> 0] ] \* the event that last set the countdown
                                              \* in the frame loop, the frames since

\* A fault: the manager of the session before is kept.
new_manager_kept(d) == d

\* button_manager = ButtonManager()
new_manager(d) ==
  [d EXCEPT !.button_timeout = ButtonManager,
            !.press = [b |-> 0, n |-> 0, on |-> 0]]

\* History: the countdown was set in the frame loop by the dispatch of `by`
\* ("none": not in the frame loop, or the scheduler is not idle).
countdown_set(d, by) == [d EXCEPT !.grace = [by |-> by, frames |-> 0]]

\* History: a frame was published.
frame_published(d) ==
  [d EXCEPT !.grace.frames = IF d.grace.by = "none" THEN @ ELSE @ + 1]

\* History: event (or "restart") changes the session or the episode.
boundary(d, event) ==
  [d EXCEPT !.last = event, !.fresh = {},
            !.cleared = {i \in DOMAIN d.button_timeout : d.button_timeout[i] > 0}]

\* `except:` and `finally:` of start(), after the `with` block, when it was
\* entered, has closed the stream.
stop(d, f) ==
  [d EXCEPT !.pc = "stopped", !.wait = "none", !.stream = FALSE,
            !.loop_running = FALSE, !.game = "closed", !.error = f]

\* self.game.init(), which is outside the try statement.
game_init(d, f) ==
  IF f = "init"
    THEN [d EXCEPT !.pc = "crashed", !.error = f]
    ELSE [d EXCEPT !.game = "running"]

\* The waiting loop up to its suspension: advance_action(), then wait_for.
wait_loop(d, f) ==
  IF f = "advance_action"
    THEN stop(d, f)
    ELSE [d EXCEPT !.pc = "wait256", !.wait = "period", !.tick = "no_frame"]

\* The dispatch after the waiting loop.
dispatch_outer(d, event) ==
  CASE event.type = GOT_CONNECTION ->
         [countdown_set(d, "none") EXCEPT !.idle_frames_left = IdleFrames,
                                          !.last = event.type]
    [] event.type = NEW_PLAYER ->
         [countdown_set(boundary(d, event.type), "none") EXCEPT
            !.caller = set_caller(event.value), !.idle = FALSE]
    [] event.type = NO_PLAYER ->
         [countdown_set(boundary(d, event.type), "none") EXCEPT
            !.caller = set_caller(None), !.idle_frames_left = IdleFrames]
    [] OTHER -> [countdown_set(d, "none") EXCEPT !.discarded = @ \cup {event.type}]

\* A fault: the loop goes on only while the countdown runs.
loop_condition_countdown_only(d) == d.idle_frames_left > 0

\* not idle or idle_frames_left > 0
loop_condition(d) == ~d.idle \/ d.idle_frames_left > 0

\* One pass of `while not idle or idle_frames_left > 0` up to the suspension in
\* wait_for; when the condition is false, the end of the `with` block and the
\* waiting loop.
frame_loop(d, f, fin) ==
  IF loop_condition(d)
    THEN
      IF fin /\ f = "new_episode" THEN stop(d, f)
      ELSE IF f \in {"get_state", "send_frame"} THEN stop(IF fin THEN new_manager(d) ELSE d, f)
      ELSE
        LET d1 == frame_published(IF fin THEN new_manager(boundary(d, "restart")) ELSE d)
        IN [d1 EXCEPT !.pc = "drain292", !.wait = "deadline", !.tick = "frame",
                      !.idle_frames_left = IF d.idle THEN @ - 1 ELSE @]
    ELSE wait_loop([d EXCEPT !.stream = FALSE], f)

\* `with self.twitch as stream:` up to the first suspension inside it.
stream_run(d, f, fin) ==
  IF f = "open" THEN stop(d, f)
  ELSE IF f = "new_episode" THEN stop([d EXCEPT !.stream = TRUE], f)
  ELSE frame_loop(new_manager([d EXCEPT !.stream = TRUE]), f, fin)

\* A fault: GOT_CONNECTION sets the countdown whether the scheduler is idle
\* or not.
dispatch_inner_resets(d, event, f) ==
  CASE event.type = GOT_CONNECTION ->
         [(IF d.idle THEN countdown_set(d, event.type) ELSE d) EXCEPT
            !.idle_frames_left = IdleFrames,
            !.last = event.type]
    [] event.type = NEW_PLAYER ->
         IF f = "new_episode"
           THEN stop([d EXCEPT !.caller = set_caller(event.value)], f)
           ELSE [countdown_set(new_manager(boundary(d, event.type)), "none") EXCEPT
                   !.caller = set_caller(event.value), !.idle = FALSE]
    [] event.type = NO_PLAYER ->
         IF f = "new_episode"
           THEN stop([d EXCEPT !.caller = set_caller(None)], f)
           ELSE [countdown_set(new_manager(boundary(d, event.type)), event.type) EXCEPT
                   !.caller = set_caller(None), !.idle = TRUE,
                   !.idle_frames_left = IdleFrames]
    [] OTHER ->
         LET key == event.value[1] IN
         [d EXCEPT !.button_timeout = button_pressed(@, key, HoldTicks),
                   !.last = event.type,
                   !.fresh = IF key \in DOMAIN BUTTON_MAP
                               THEN @ \cup {index(BUTTON_MAP[key])} ELSE @,
                   !.press = IF key \in DOMAIN BUTTON_MAP
                               THEN [b |-> index(BUTTON_MAP[key]), n |-> 0, on |-> 0]
                               ELSE @]

\* The dispatch in the drain of a frame.
dispatch_inner(d, event, f) ==
  CASE event.type = GOT_CONNECTION ->
         [(IF d.idle THEN countdown_set(d, event.type) ELSE d) EXCEPT
            !.idle_frames_left = IF d.idle THEN IdleFrames ELSE @,
            !.last = event.type]
    [] event.type = NEW_PLAYER ->
         IF f = "new_episode"
           THEN stop([d EXCEPT !.caller = set_caller(event.value)], f)
           ELSE [countdown_set(new_manager(boundary(d, event.type)), "none") EXCEPT
                   !.caller = set_caller(event.value), !.idle = FALSE]
    [] event.type = NO_PLAYER ->
         IF f = "new_episode"
           THEN stop([d EXCEPT !.caller = set_caller(None)], f)
           ELSE [countdown_set(new_manager(boundary(d, event.type)), event.type) EXCEPT
                   !.caller = set_caller(None), !.idle = TRUE,
                   !.idle_frames_left = IdleFrames]
    [] OTHER ->
         LET key == event.value[1] IN
         [d EXCEPT !.button_timeout = button_pressed(@, key, HoldTicks),
                   !.last = event.type,
                   !.fresh = IF key \in DOMAIN BUTTON_MAP
                               THEN @ \cup {index(BUTTON_MAP[key])} ELSE @,
                   !.press = IF key \in DOMAIN BUTTON_MAP
                               THEN [b |-> index(BUTTON_MAP[key]), n |-> 0, on |-> 0]
                               ELSE @]

\* self.game.make_action(button_manager.get_action())
make_action(d, f) ==
  LET r == get_action(d.button_timeout)
      d1 == [d EXCEPT !.button_timeout = r.button_timeout]
  IN IF f = "make_action"
       THEN stop(d1, f)
       ELSE [d1 EXCEPT
              !.last = "tick",
              !.press = IF @.b # 0 /\ @.n <= HoldTicks
                          THEN [@ EXCEPT !.n = @ + 1,
                                         !.on = IF r.action[d.press.b] THEN @ + 1 ELSE @]
                          ELSE @]

(***************************************************************************)
(* The times of the streaming loop of Doom.start, as functions of the      *)
(* clock c.  Times are exact: the rounding of frames / DOOM_FPS is left    *)
(* out.                                                                    *)
(***************************************************************************)
\* A fault: each wait lasts one frame period from the moment it is called.
drain_timeout_from_now(c) == Period

\* start + frames / DOOM_FPS - self.loop.time()
drain_timeout(c) == c.start + c.frames * Period - c.now

\* asyncio.wait_for(self.asterisk_queue.get(), timeout=...): with a timeout
\* that is not positive it does not wait for the queue.
wait_for(c) ==
  LET timeout == drain_timeout(c) IN
  [c EXCEPT !.pc = IF timeout > 0 THEN "drain" ELSE "expired",
            !.deadline = c.now + timeout]

\* start = self.loop.time(); frames = 0; self.game.new_episode()
open(c, x) ==
  [c EXCEPT !.start = c.now, !.frames = 0, !.opened = c.now, !.now = @ + x]

\* One pass of the loop to wait_for: the frame is made and sent, frames += 1.
frame(c, w) ==
  wait_for([c EXCEPT !.now = @ + w, !.frames = @ + 1])

VARIABLES
  playing,      \* Asterisk.playing
  waiting,      \* Asterisk.waiting
  queue,        \* the asyncio.Queue shared by Asterisk and Doom
  spc,          \* per channel: where its on_start coroutine stands
  epc,          \* per channel: where its on_end coroutine stands
  ndtmf,        \* ChannelDtmfReceived events delivered so far
  doom,         \* the scheduler: the locals of Doom.start, the game, the stream
  obs,          \* history: what each handler saw and pushed
  manager,      \* a ButtonManager on its own, with the history of its calls
  clock         \* the times of one streaming run of Doom.start

tel_vars == <<playing, waiting, spc, epc, ndtmf, obs>>
unit_vars == <<manager, clock>>
vars == <<playing, waiting, queue, spc, epc, ndtmf, doom, obs, manager, clock>>

NoEndObs == [kind |-> "none", playing0 |-> None, waiting0 |-> <<>>,
             playing1 |-> None, waiting1 |-> <<>>, pushed |-> <<>>]

InitObs ==
  [ appended |-> <<>>,      \* the sessions appended to waiting, in order
    outcome  |-> [c \in Channels |-> "none"],
    spushed  |-> [c \in Channels |-> <<>>],
    ended    |-> [c \in Channels |-> NoEndObs] ]

\* A ButtonManager that Doom.start has just made.  The fields after
\* `button_timeout` are history: the last call (op, its arguments, the
\* counters before it, the vector it returned) and, per button, the timeout
\* of its last press and the calls of get_action since.
InitManager ==
  [ button_timeout |-> ButtonManager,
    op |-> "ButtonManager",
    before |-> ButtonManager,
    key |-> 0,
    timeout |-> 0,
    action |-> [i \in 1..Len(BUTTON_LIST) |-> FALSE],
    hold |-> ButtonManager,
    calls |-> ButtonManager ]

\* The clock of Doom.start before the stream is opened.  `now` is
\* loop.time(), `start` and `frames` are the locals of the `with` block; the
\* fields after `frames` are history: the time at which the stream was
\* opened, the time at which the wait_for in progress gives up, the timeout
\* handed to the wait_for before it and the time that one was suspended.
InitClock ==
  [ pc |-> "resting",
    now |-> 0,
    start |-> 0,
    frames |-> 0,
    opened |-> 0,
    deadline |-> 0,
    last_timeout |-> 0,
    last_slept |-> 0 ]

\* The state after the module has run to loop.run_forever(), with the
\* channels 1..n about to call in.
InitTel(n) ==
  /\ playing = None
  /\ waiting = <<>>
  /\ queue = <<>>
  /\ spc = [c \in Channels |-> IF c <= n THEN "new" ELSE "absent"]
  /\ epc = [c \in Channels |-> "none"]
  /\ ndtmf = 0
  /\ doom = InitDoom
  /\ obs = InitObs
  /\ manager = InitManager
  /\ clock = InitClock

\* on_start, from StasisStart to the suspension before the admission step:
\* GOT_CONNECTION is pushed, on_dtmf and on_end are registered.
on_start_connect(c) ==
  /\ doom.loop_running
  /\ spc[c] = "new"
  /\ queue' = Append(queue, Ev(GOT_CONNECTION, None))
  /\ spc' = [spc EXCEPT ![c] = "intro"]
  /\ UNCHANGED <<playing, waiting, epc, ndtmf, doom, obs, unit_vars>>

\* on_start, from the end of the last sleep to channel.play.
on_start_admit(c) ==
  /\ doom.loop_running
  /\ spc[c] = "intro"
  /\ LET r == admit(playing, waiting, Session(c)) IN
       /\ playing' = r.playing
       /\ waiting' = r.waiting
       /\ spc' = [spc EXCEPT ![c] = IF r.outcome = "active" THEN "entering" ELSE "done"]
       /\ obs' = [obs EXCEPT !.outcome[c] = r.outcome,
                             !.appended = IF r.outcome = "queued"
                                            THEN Append(@, Session(c)) ELSE @]
  /\ UNCHANGED <<queue, epc, ndtmf, doom, unit_vars>>

\* on_start, after channel.play of the admitted caller returns.
on_start_push(c) ==
  /\ doom.loop_running
  /\ spc[c] = "entering"
  /\ LET e == new_player_event(playing) IN
       /\ queue' = queue \o e
       /\ spc' = [spc EXCEPT ![c] = IF e = <<>> THEN "raised" ELSE "done"]
       /\ obs' = [obs EXCEPT !.spushed[c] = @ \o e]
  /\ UNCHANGED <<playing, waiting, epc, ndtmf, doom, unit_vars>>

\* on_dtmf of a channel that is in the application.
on_dtmf(c, digit) ==
  /\ doom.loop_running
  /\ spc[c] \in {"intro", "entering", "done", "raised"}
  /\ epc[c] = "none"
  /\ ndtmf < MaxDtmf
  /\ ndtmf' = ndtmf + 1
  /\ queue' = IF playing # None /\ c = playing[2]
                THEN Append(queue, Ev(BUTTON_PRESSED, <<digit>>))
                ELSE queue
  /\ UNCHANGED <<playing, waiting, spc, epc, doom, obs, unit_vars>>

\* on_end, from StasisEnd to its first suspension or its end.
on_end(c) ==
  /\ doom.loop_running
  /\ spc[c] \in {"intro", "entering", "done", "raised"}
  /\ epc[c] = "none"
  /\ LET r == depart(playing, waiting, c)
         e == IF r.kind = "idle" THEN <<Ev(NO_PLAYER, None)>> ELSE <<>>
     IN
       /\ playing' = r.playing
       /\ waiting' = r.waiting
       /\ queue' = queue \o e
       /\ epc' = [epc EXCEPT ![c] = CASE r.kind = "promote" -> "promoting"
                                      [] r.kind = "raised" -> "raised"
                                      [] OTHER -> "done"]
       /\ obs' = [obs EXCEPT
            !.ended[c] = [kind |-> r.kind, playing0 |-> playing, waiting0 |-> waiting,
                          playing1 |-> r.playing, waiting1 |-> r.waiting, pushed |-> e]]
  /\ UNCHANGED <<spc, ndtmf, doom, unit_vars>>

\* on_end, after channel.play returns in the promotion branch.
on_end_push(c) ==
  /\ doom.loop_running
  /\ epc[c] = "promoting"
  /\ LET e == new_player_event(playing) IN
       /\ queue' = queue \o e
       /\ epc' = [epc EXCEPT ![c] = IF e = <<>> THEN "raised" ELSE "done"]
       /\ obs' = [obs EXCEPT !.ended[c].pushed = @ \o e]
  /\ UNCHANGED <<playing, waiting, spc, ndtmf, doom, unit_vars>>

\* Doom.start from its first line to the first suspension.
doom_start(f) ==
  /\ doom.pc = "init"
  /\ LET d == game_init(doom, f) IN
       doom' = IF d.pc = "crashed" THEN d ELSE wait_loop(d, f)
  /\ UNCHANGED <<queue, tel_vars, unit_vars>>

\* wait_for(self.asterisk_queue.get(), 1 / DOOM_FPS) times out.
doom_wait_timeout(f) ==
  /\ doom.pc = "wait256"
  /\ queue = <<>>
  /\ doom' = wait_loop(doom, f)
  /\ UNCHANGED <<queue, tel_vars, unit_vars>>

\* From the second get on: the event got is dispatched and the `with` block
\* runs to its first suspension.
get_event(d, q, f, fin) ==
  stream_run(dispatch_outer(d, Head(q)), f, fin)

\* wait_for(self.asterisk_queue.get(), 1 / DOOM_FPS) returns an event, which
\* `event = await self.asterisk_queue.get()` overwrites: at once when the
\* queue holds another event, and else after a suspension.
doom_wait_event(f, fin) ==
  /\ doom.pc = "wait256"
  /\ queue # <<>>
  /\ LET d == [countdown_set(doom, "none") EXCEPT
                  !.discarded = @ \cup {Head(queue).type}]
         q == Tail(queue)
     IN IF q = <<>>
          THEN /\ doom' = [d EXCEPT !.pc = "get260", !.wait = "unbounded"]
               /\ queue' = q
          ELSE /\ doom' = get_event(d, q, f, fin)
               /\ queue' = Tail(q)
  /\ UNCHANGED <<tel_vars, unit_vars>>

\* `event = await self.asterisk_queue.get()` returns after a suspension.
doom_get_event(f, fin) ==
  /\ doom.pc = "get260"
  /\ queue # <<>>
  /\ doom' = get_event(doom, queue, f, fin)
  /\ queue' = Tail(queue)
  /\ UNCHANGED <<tel_vars, unit_vars>>

\* wait_for(self.asterisk_queue.get(), timeout=...) in the drain returns an event.
doom_drain_event(f) ==
  /\ doom.pc = "drain292"
  /\ queue # <<>>
  /\ doom' = dispatch_inner(doom, Head(queue), f)
  /\ queue' = Tail(queue)
  /\ UNCHANGED <<tel_vars, unit_vars>>

\* wait_for in the drain times out: make_action and the next pass of the loop.
doom_drain_timeout(f, fin) ==
  /\ doom.pc = "drain292"
  /\ LET d == make_action(doom, f) IN
       doom' = IF d.pc = "stopped" THEN d ELSE frame_loop(d, f, fin)
  /\ UNCHANGED <<queue, tel_vars, unit_vars>>

\* button_manager = ButtonManager()
manager_new ==
  /\ manager.op # "ButtonManager"
  /\ manager' = InitManager
  /\ UNCHANGED <<queue, tel_vars, doom, clock>>

\* button_manager.button_pressed(button, timeout)
manager_button_pressed(button, timeout) ==
  /\ manager' =
       [manager EXCEPT
          !.button_timeout = button_pressed(@, button, timeout),
          !.op = "button_pressed",
          !.before = manager.button_timeout,
          !.key = button,
          !.timeout = timeout,
          !.hold = IF button \in DOMAIN BUTTON_MAP
                     THEN [@ EXCEPT ![index(BUTTON_MAP[button])] = timeout] ELSE @,
          !.calls = IF button \in DOMAIN BUTTON_MAP
                      THEN [@ EXCEPT ![index(BUTTON_MAP[button])] = 0] ELSE @]
  /\ UNCHANGED <<queue, tel_vars, doom, clock>>

\* button_manager.get_action()
manager_get_action ==
  /\ LET r == get_action(manager.button_timeout) IN
       manager' =
         [manager EXCEPT
            !.button_timeout = r.button_timeout,
            !.op = "get_action",
            !.before = manager.button_timeout,
            !.action = r.action,
            !.calls = [i \in DOMAIN @ |-> IF @[i] <= MaxHold THEN @[i] + 1 ELSE @[i]]]
  /\ UNCHANGED <<queue, tel_vars, doom, clock>>

\* The waiting loop: wait_for(..., 1 / DOOM_FPS) times out.
clock_rest ==
  /\ clock.pc = "resting"
  /\ clock.frames = 0
  /\ clock.now < MaxRest
  /\ clock' = [clock EXCEPT !.now = @ + Period]
  /\ UNCHANGED <<queue, tel_vars, doom, manager>>

\* `with self.twitch as stream:` to the first wait_for: start is read, the
\* episode is started (x units of time), the first frame is published (w).
clock_open(x, w) ==
  /\ clock.pc = "resting"
  /\ clock.frames = 0
  /\ clock' = frame(open(clock, x), w)
  /\ UNCHANGED <<queue, tel_vars, doom, manager>>

\* wait_for returns an event e units of time after it was called, before its
\* timeout; the dispatch takes x units, and wait_for is called again.
clock_event(e, x) ==
  /\ clock.pc = "drain"
  /\ clock.now + e < clock.deadline
  /\ clock' = wait_for([clock EXCEPT !.now = @ + e + x,
                                     !.last_timeout = clock.deadline - clock.now,
                                     !.last_slept = e])
  /\ UNCHANGED <<queue, tel_vars, doom, manager>>

\* wait_for times out, l units of time late; make_action and the next pass
\* of the loop (w units), which the loop condition ends after MaxFrames frames.
clock_timeout(l, w) ==
  /\ clock.pc = "drain"
  /\ LET c == [clock EXCEPT !.now = clock.deadline + l,
                            !.last_timeout = clock.deadline - clock.now,
                            !.last_slept = clock.deadline + l - clock.now]
     IN clock' = IF c.frames < MaxFrames THEN frame(c, w) ELSE [c EXCEPT !.pc = "resting"]
  /\ UNCHANGED <<queue, tel_vars, doom, manager>>

\* wait_for was called with a timeout that is not positive: it raises
\* TimeoutError without waiting; make_action and the next pass of the loop.
clock_expired(w) ==
  /\ clock.pc = "expired"
  /\ LET c == [clock EXCEPT !.last_timeout = clock.deadline - clock.now,
                            !.last_slept = 0]
     IN clock' = IF c.frames < MaxFrames THEN frame(c, w) ELSE [c EXCEPT !.pc = "resting"]
  /\ UNCHANGED <<queue, tel_vars, doom, manager>>

NextTel ==
  \E c \in Channels :
    \/ on_start_connect(c)
    \/ on_start_admit(c)
    \/ on_start_push(c)
    \/ on_end(c)
    \/ on_end_push(c)

\* The scheduler, with the calls in F raising.
NextDoom(F) ==
  \E f \in F, fin \in BOOLEAN :
    \/ doom_start(f)
    \/ doom_wait_timeout(f)
    \/ doom_wait_event(f, fin)
    \/ doom_get_event(f, fin)
    \/ doom_drain_event(f)
    \/ doom_drain_timeout(f, fin)

Next ==
  \/ NextTel
  \/ \E c \in Channels, digit \in DtmfInputs : on_dtmf(c, digit)
  \/ NextDoom({"none"})

NextFault ==
  \/ NextTel
  \/ NextDoom(Faults)

\* A ButtonManager called in every order, with the keys of DtmfInputs.
NextManager ==
  \/ manager_new
  \/ \E button \in DtmfInputs, timeout \in 0..MaxHold :
       manager_button_pressed(button, timeout)
  \/ manager_get_action

\* The times of the streaming loop.
NextClock ==
  \E x \in 0..MaxWork, w \in 0..MaxWork, e \in 0..Period, l \in {0, 1} :
    \/ clock_rest
    \/ clock_open(x, w)
    \/ clock_event(e, x)
    \/ clock_timeout(l, w)
    \/ clock_expired(w)

\* The handlers on_start and on_end alone, which own playing and waiting and
\* read nothing of the scheduler: the queue keeps every event they push.
SpecTel == InitTel(MaxChannels) /\ [][NextTel]_vars

\* The whole program, when no call of the game or of the stream raises.
Spec == InitTel(DoomChannels) /\ [][Next]_vars

\* The whole program, when no key is pressed and a call of the game or of the
\* stream may raise.
SpecFault == InitTel(DoomChannels) /\ [][NextFault]_vars

\* The handlers under fair scheduling: the event loop resumes every handler
\* that is ready to go on, and whoever holds the active slot hangs up.
FairTel ==
  \A c \in Channels :
    /\ WF_vars(on_start_admit(c))
    /\ WF_vars(on_start_push(c))
    /\ WF_vars(on_end_push(c))
    /\ WF_vars(playing = Session(c) /\ on_end(c))

SpecTelFair == SpecTel /\ FairTel

\* A ButtonManager on its own.
SpecManager == InitTel(0) /\ [][NextManager]_vars

\* The clock of one streaming run of Doom.start.
SpecClock == InitTel(0) /\ [][NextClock]_vars

(***************************************************************************)
(* The registry: claims about playing and waiting, under SpecTel.          *)
(***************************************************************************)
InSeq(x, w) == \E i \in 1..Len(w) : w[i] = x

\* on_end of some channel made s the active session.
Promoted(s) ==
  \E c \in Channels : obs.ended[c].kind = "promote" /\ obs.ended[c].playing1 = s

\* on_end of the channel of s was handled while s was in the waiting list.
LeftQueue(s) ==
  /\ obs.ended[s[2]].kind = "other"
  /\ InSeq(s, obs.ended[s[2]].waiting0)

\* C1: at most one session is active; the waiting list holds the sessions that
\* were appended and were neither promoted nor removed since, in the order in
\* which they were appended; a promotion makes the head of the list the active
\* session and keeps the rest of the list in its order.
C1_FifoOrder ==
  /\ playing = None \/ \E c \in Channels : playing = Session(c)
  /\ waiting = SelectSeq(obs.appended, LAMBDA s : ~Promoted(s) /\ ~LeftQueue(s))
  /\ \A c \in Channels :
       obs.ended[c].kind = "promote" =>
         /\ obs.ended[c].playing1 = Head(obs.ended[c].waiting0)
         /\ obs.ended[c].waiting1 = Tail(obs.ended[c].waiting0)

\* The example of C1: 1, 2, 3 were admitted in this order, 1 became active,
\* 2 and 3 were queued, 1 departed: 2 is active and 3 waits.
C1_Example ==
  /\ obs.outcome[1] = "active"
  /\ obs.appended = <<Session(2), Session(3)>>
  /\ obs.ended[1].kind = "promote"
  /\ obs.ended[1].waiting0 = <<Session(2), Session(3)>>
  /\ playing = Session(2)
  /\ waiting = <<Session(3)>>

\* C2: an on_start that has passed the admission step and has ended either
\* made its caller the active session and pushed exactly one NEW_PLAYER with
\* its own caller, or appended it to the list and pushed nothing; and the
\* channel of the active session is never in the waiting list.
C2_AdmissionOutcome ==
  /\ \A c \in Channels :
       spc[c] \in {"done", "raised"} =>
         \/ /\ obs.outcome[c] = "active"
            /\ obs.spushed[c] = <<Ev(NEW_PLAYER, CallerOf(c))>>
         \/ /\ obs.outcome[c] = "queued"
            /\ obs.spushed[c] = <<>>
  /\ playing # None => \A i \in 1..Len(waiting) : waiting[i][2] # playing[2]

\* C3: an on_end that has ended, handled for the channel of the active
\* session, promoted the head of the list and pushed exactly one NEW_PLAYER
\* with the caller it promoted, or, the list being empty, cleared the slot and
\* pushed exactly one NO_PLAYER; handled for another channel while a session
\* was active, it removed that channel from the list and pushed nothing.
C3_DepartureContract ==
  \A c \in Channels :
    LET o == obs.ended[c] IN
    (epc[c] \in {"done", "raised"} /\ o.playing0 # None) =>
      IF o.playing0[2] = c
        THEN IF o.waiting0 # <<>>
          THEN /\ o.playing1 = Head(o.waiting0)
               /\ o.waiting1 = Tail(o.waiting0)
               /\ o.pushed = <<Ev(NEW_PLAYER, Head(o.waiting0)[1])>>
          ELSE /\ o.playing1 = None
               /\ o.waiting1 = <<>>
               /\ o.pushed = <<Ev(NO_PLAYER, None)>>
        ELSE /\ o.playing1 = o.playing0
             /\ o.waiting1 = SelectSeq(o.waiting0, LAMBDA x : x[2] # c)
             /\ o.pushed = <<>>

\* C4: a channel whose on_end has been handled is neither the active session
\* nor in the waiting list.
C4_EndedStaysOut ==
  \A c \in Channels :
    epc[c] # "none" =>
      /\ playing = None \/ playing[2] # c
      /\ \A i \in 1..Len(waiting) : waiting[i][2] # c

(***************************************************************************)
(* The scheduler: claims about Doom.start, under Spec and SpecFault.       *)
(***************************************************************************)
Min(a, b) == IF a < b THEN a ELSE b

\* C5: no event is dequeued and then discarded without its dispatch branch
\* being run, so every event pushed is dispatched, once and in push order.
C5_NoEventDiscarded == doom.discarded = {}

\* C6: after a key press dispatched with the hold DOOM_FPS // 2, the button
\* is reported pressed in each of the next DOOM_FPS // 2 action vectors and
\* in none after them: of the n vectors since the press, min(n, hold) report it.
C6_HoldWindow ==
  doom.press.b # 0 => doom.press.on = Min(doom.press.n, HoldTicks)

\* C7: right after the scheduler has dispatched NEW_PLAYER or NO_PLAYER or has
\* restarted a finished episode, every button counter is zero; a counter is
\* positive only for a key pressed since then; after NO_PLAYER the overlay
\* shows "No caller".
C7_ButtonsCleared ==
  doom.pc \in {"wait256", "get260", "drain292"} =>
    /\ doom.last \in {NEW_PLAYER, NO_PLAYER, "restart"} =>
         \A i \in DOMAIN doom.button_timeout : doom.button_timeout[i] = 0
    /\ \A i \in DOMAIN doom.button_timeout :
         doom.button_timeout[i] > 0 => i \in doom.fresh
    /\ doom.last = NO_PLAYER => doom.caller = [text |-> "No caller", digits |-> <<>>]

\* NO_PLAYER was dispatched while a button of the session was still held.
C7_ClearedHeldButton ==
  /\ doom.pc = "drain292"
  /\ doom.last = NO_PLAYER
  /\ doom.cleared # {}

C9_BoundedWaits ==
  doom.pc \in {"wait256", "get260", "drain292"} => doom.wait \in {"period", "deadline"}

\* C10: when a call of the game or of the stream has raised, the event loop
\* is stopped, the game is closed and the stream is not open.
C10_FatalTeardown ==
  doom.error # "none" =>
    /\ ~doom.loop_running
    /\ doom.game = "closed"
    /\ ~doom.stream

(***************************************************************************)
(* ButtonManager on its own: claims under SpecManager.                     *)
(***************************************************************************)
\* C11: a call of get_action increases no counter, takes one off every
\* positive counter and takes none below zero; the vector it returns is
\* all-false when every counter was zero; a counter set to h by a press is
\* h - n after n <= h calls of get_action, so it is zero after exactly h
\* calls, and zero after every call that follows.
C11_DecayToZero ==
  /\ \A i \in DOMAIN manager.button_timeout : manager.button_timeout[i] >= 0
  /\ manager.op = "get_action" =>
       /\ \A i \in DOMAIN manager.button_timeout :
            /\ manager.button_timeout[i] <= manager.before[i]
            /\ manager.before[i] > 0 =>
                 manager.button_timeout[i] = manager.before[i] - 1
       /\ (\A i \in DOMAIN manager.before : manager.before[i] = 0) =>
            \A i \in DOMAIN manager.action : ~manager.action[i]
  /\ \A i \in DOMAIN manager.button_timeout :
       manager.button_timeout[i] = Max(manager.hold[i] - manager.calls[i], 0)

\* A counter set to h >= 2 by a press has reached zero with the h-th call
\* of get_action after it.
C11_ReachedZero ==
  /\ manager.op = "get_action"
  /\ \E i \in DOMAIN manager.button_timeout :
       /\ manager.hold[i] >= 2
       /\ manager.calls[i] = manager.hold[i]
       /\ manager.before[i] = 1
       /\ manager.button_timeout[i] = 0

\* C12: button_pressed(k, h) for a key k of BUTTON_MAP leaves the counter of
\* its button at exactly h, whatever it was before, and leaves every other
\* counter as it was.
C12_PressOverwrites ==
  (manager.op = "button_pressed" /\ manager.key \in DOMAIN BUTTON_MAP) =>
    \A i \in DOMAIN manager.button_timeout :
      manager.button_timeout[i] =
        IF i = index(BUTTON_MAP[manager.key]) THEN manager.timeout ELSE manager.before[i]

\* The same key was pressed twice in immediate succession with h > 0, while
\* another button was held.
C12_PressedTwice ==
  /\ manager.op = "button_pressed"
  /\ manager.key \in DOMAIN BUTTON_MAP
  /\ manager.timeout > 0
  /\ manager.before[index(BUTTON_MAP[manager.key])] = manager.timeout
  /\ manager.button_timeout[index(BUTTON_MAP[manager.key])] = manager.timeout
  /\ \E j \in DOMAIN manager.before :
       j # index(BUTTON_MAP[manager.key]) /\ manager.before[j] > 0

(***************************************************************************)
(* The times of the streaming loop: claims under SpecClock.                *)
(***************************************************************************)
\* C13: start is the time at which the stream was opened; the wait_for that
\* drains the events after the k-th frame gives up at start + k frame
\* periods, whatever the time at which it is called; a wait_for called at or
\* after that time does not wait, and one called before it does not wait
\* beyond it but for the lateness of the wake-up.
C13_DeadlineFromStart ==
  /\ clock.start = clock.opened
  /\ clock.pc \in {"drain", "expired"} =>
       /\ clock.frames >= 1
       /\ clock.deadline = clock.opened + clock.frames * Period
       /\ clock.pc = "expired" <=> clock.now >= clock.deadline
  /\ clock.last_timeout <= 0 => clock.last_slept = 0
  /\ clock.last_timeout > 0 => clock.last_slept <= clock.last_timeout + 1

\* The work of a tick overran its deadline by d > 0, and the loop is in the
\* wait of the tick after it, before that tick's deadline.
C13_AfterOverrun ==
  /\ clock.pc = "drain"
  /\ clock.frames >= 2
  /\ clock.last_timeout < 0
  /\ clock.now < clock.opened + clock.frames * Period

(***************************************************************************)
(* The scheduler: more claims about Doom.start, under Spec.                *)
(***************************************************************************)
\* C14: when the drain dispatches a BUTTON_PRESSED whose key BUTTON_MAP does
\* not hold, nothing of the scheduler changes: every button counter, the
\* overlay, the idle flag and the countdown are as before, no call has
\* raised, and the scheduler is in the drain of the same tick.
C14_UnmappedKeyIgnored ==
  [][ ( /\ doom.pc = "drain292"
        /\ queue # <<>>
        /\ queue' = Tail(queue)
        /\ Head(queue).type = BUTTON_PRESSED
        /\ Head(queue).value[1] \notin DOMAIN BUTTON_MAP )
      => doom' = [doom EXCEPT !.last = BUTTON_PRESSED] ]_vars

\* The drain has dispatched the key 'A': the one key pressed was dispatched
\* in the drain and pressed no button.
C14_UnmappedKeyDispatched ==
  /\ doom.pc = "drain292"
  /\ doom.last = BUTTON_PRESSED
  /\ doom.press.b = 0
  /\ doom.error = "none"

\* C15: the countdown is never negative; once the frame loop has dispatched
\* NO_PLAYER, or GOT_CONNECTION while idle, the scheduler is idle and the
\* countdown is 15 * DOOM_FPS less the frames published since, as long as no
\* NEW_PLAYER is dispatched; the scheduler stays in the frame loop until
\* exactly 15 * DOOM_FPS frames have been published since, and then rests
\* with the stream closed.
C15_GraceCountdown ==
  /\ doom.idle_frames_left >= 0
  /\ doom.grace.by # "none" =>
       /\ doom.idle
       /\ doom.grace.frames + doom.idle_frames_left = 15 * DOOM_FPS
       /\ \/ doom.pc = "drain292"
          \/ /\ doom.pc = "wait256"
             /\ doom.grace.frames = 15 * DOOM_FPS
             /\ ~doom.stream

\* NO_PLAYER was dispatched in the frame loop, 15 * DOOM_FPS frames were
\* published after it, and the scheduler rests.
C15_GraceRanOut ==
  /\ doom.pc = "wait256"
  /\ doom.grace.by = NO_PLAYER
  /\ doom.grace.frames = 15 * DOOM_FPS
  /\ doom.idle_frames_left = 0

\* A NEW_PLAYER with the caller v was pushed by some handler.
NewPlayerPushed(v) ==
  \E c \in Channels :
    \/ InSeq(Ev(NEW_PLAYER, v), obs.spushed[c])
    \/ InSeq(Ev(NEW_PLAYER, v), obs.ended[c].pushed)

\* C16: no NEW_PLAYER is pushed for a caller that was put in the waiting
\* list and has not been promoted; and when the drain dispatches
\* GOT_CONNECTION while the scheduler is occupied, nothing of the scheduler
\* changes: the overlay, every button counter, the idle flag and the
\* countdown are as before and the episode is not restarted.
C16_QueuedCallerSilent ==
  /\ [](\A c \in Channels :
         (obs.outcome[c] = "queued" /\ ~Promoted(Session(c))) =>
           ~NewPlayerPushed(CallerOf(c)))
  /\ [][ ( /\ doom.pc = "drain292"
           /\ queue # <<>>
           /\ queue' = Tail(queue)
           /\ Head(queue).type = GOT_CONNECTION
           /\ ~doom.idle )
         => doom' = [doom EXCEPT !.last = GOT_CONNECTION] ]_vars

\* A caller waits in the list behind the active session, and the last event
\* the drain dispatched, with the scheduler occupied, is a GOT_CONNECTION.
C16_QueuedWhileOccupied ==
  /\ doom.pc = "drain292"
  /\ doom.last = GOT_CONNECTION
  /\ ~doom.idle
  /\ playing # None
  /\ \E c \in Channels :
       /\ obs.outcome[c] = "queued"
       /\ waiting = <<Session(c)>>
       /\ ~NewPlayerPushed(CallerOf(c))

(***************************************************************************)
(* The registry: more claims about playing and waiting, under SpecTel.     *)
(***************************************************************************)
\* C17: an on_end handled while no session is active ends without raising,
\* leaves the active slot empty and the waiting list as it was, and pushes
\* no event.
C17_EndWithoutSession ==
  \A c \in Channels :
    (epc[c] # "none" /\ obs.ended[c].playing0 = None) =>
      /\ epc[c] = "done"
      /\ obs.ended[c].kind = "other"
      /\ obs.ended[c].playing1 = None
      /\ obs.ended[c].waiting1 = obs.ended[c].waiting0
      /\ obs.ended[c].pushed = <<>>

(***************************************************************************)
(* The scheduler and the registry together, under Spec.                    *)
(***************************************************************************)
\* The event queue is empty, no on_start and no on_end is suspended or has
\* raised, and the scheduler is suspended in a wait on the queue.
Quiescent ==
  /\ queue = <<>>
  /\ \A c \in Channels :
       /\ spc[c] \in {"absent", "new", "done"}
       /\ epc[c] \in {"none", "done"}
  /\ doom.pc \in {"wait256", "get260", "drain292"}

\* C18: in a quiescent state the scheduler is occupied exactly when a session
\* is active, and the overlay shows the caller of the active session, or
\* "No caller" when none is active.
C18_SchedulerAgrees ==
  Quiescent =>
    /\ ~doom.idle <=> playing # None
    /\ doom.caller = set_caller(IF playing = None THEN None ELSE playing[1])

(***************************************************************************)
(* The registry: liveness under SpecTelFair, an invariant under SpecTel.   *)
(***************************************************************************)
\* C19: under fair scheduling, with every holder of the active slot hanging
\* up, a caller that was put in the waiting list becomes the active session
\* unless it hangs up before.
C19_WaitingCallerServed ==
  \A c \in Channels :
    (obs.outcome[c] = "queued") ~> (playing = Session(c) \/ epc[c] # "none")

\* C20: when no session is active, the waiting list is empty.
C20_NoWaitingWhileFree == playing = None => waiting = <<>>

\* The slot is free again after a caller had been put in the list.
C20_FreeAfterQueue ==
  /\ playing = None
  /\ obs.appended # <<>>
  /\ \E c \in Channels : obs.ended[c].kind = "idle"

=============================================================================
